---- MODULE Spec2Model ----
(***************************************************************************)
(* Model of the linear-system solver of udacity-linear-algebra:            *)
(*   src/plane.py, src/hyperplane.py  (Plane / Hyperplane objects)          *)
(*   src/linsys.py                    (LinearSystem, Parametrization)       *)
(* Numbers are python Decimals under getcontext().prec = 30: every         *)
(* arithmetic result is the exact result rounded half-even to 30           *)
(* significant digits.  The Vector class is not part of src/; the vector   *)
(* operations are modelled from the interface the specification gives.     *)
(***************************************************************************)
EXTENDS Integers, Sequences, FiniteSets, TLC

VARIABLES store, orig, ret, nops, operand

vars == <<store, orig, ret, nops, operand>>

-----------------------------------------------------------------------------
(* Natural numbers of arbitrary size, for the coefficients of Decimals.    *)
(* A coefficient is a sequence of decimal digits, most significant first,  *)
(* without leading zero (zero is <<>>).  Sums, products and quotients are  *)
(* computed on limbs: the same number in base 10^4, least significant limb *)
(* first, without a zero top limb.                                         *)

Pow10(t) == CASE t = 0 -> 1 [] t = 1 -> 10 [] t = 2 -> 100 [] t = 3 -> 1000
              [] OTHER -> 10000

Zeros(k) == [i \in 1..k |-> 0]

\* digits without the leading zeros
StripLead(s) ==
    LET nz == {i \in 1..Len(s) : s[i] # 0}
    IN  IF nz = {} THEN <<>>
        ELSE LET f == CHOOSE i \in nz : \A j \in nz : i <= j
             IN  SubSeq(s, f, Len(s))

\* limbs without the zero top limbs
StripTop(L) ==
    LET nz == {i \in 1..Len(L) : L[i] # 0}
    IN  IF nz = {} THEN <<>>
        ELSE LET f == CHOOSE i \in nz : \A j \in nz : i >= j
             IN  SubSeq(L, 1, f)

DigitAt(d, i) == IF i >= 1 /\ i <= Len(d) THEN d[i] ELSE 0

ToLimbs(d) ==
    LET n == Len(d)
    IN  StripTop([j \in 1..((n + 3) \div 4) |->
                    DigitAt(d, n - 4 * (j - 1))
                    + 10 * DigitAt(d, n - 4 * (j - 1) - 1)
                    + 100 * DigitAt(d, n - 4 * (j - 1) - 2)
                    + 1000 * DigitAt(d, n - 4 * (j - 1) - 3)])

ToDigits(L) ==
    LET m == Len(L)
    IN  StripLead([i \in 1..(4 * m) |->
                     (L[m - ((i - 1) \div 4)] \div Pow10(3 - ((i - 1) % 4))) % 10])

LimbAt(L, i) == IF i <= Len(L) THEN L[i] ELSE 0

\* a + b from limb i on, with carry c
RECURSIVE LAddFrom(_, _, _, _)
LAddFrom(a, b, i, c) ==
    IF i > Len(a) /\ i > Len(b) THEN (IF c = 0 THEN <<>> ELSE <<c>>)
    ELSE LET x == LimbAt(a, i) + LimbAt(b, i) + c
         IN  <<x % 10000>> \o LAddFrom(a, b, i + 1, x \div 10000)

\* a - b (a >= b) from limb i on, with borrow c
RECURSIVE LSubFrom(_, _, _, _)
LSubFrom(a, b, i, c) ==
    IF i > Len(a) THEN <<>>
    ELSE LET x == a[i] - LimbAt(b, i) - c
         IN  IF x < 0 THEN <<x + 10000>> \o LSubFrom(a, b, i + 1, 1)
                      ELSE <<x>> \o LSubFrom(a, b, i + 1, 0)

\* a * q for one limb q, from limb i on, with carry c
RECURSIVE LMulSmallFrom(_, _, _, _)
LMulSmallFrom(a, q, i, c) ==
    IF i > Len(a) THEN (IF c = 0 THEN <<>> ELSE <<c>>)
    ELSE LET x == a[i] * q + c
         IN  <<x % 10000>> \o LMulSmallFrom(a, q, i + 1, x \div 10000)

LAdd(a, b) == LAddFrom(a, b, 1, 0)
LSub(a, b) == StripTop(LSubFrom(a, b, 1, 0))
LMulSmall(a, q) == IF q = 0 THEN <<>> ELSE LMulSmallFrom(a, q, 1, 0)

\* -1, 0, 1 as a < b, a = b, a > b
RECURSIVE LCmpFrom(_, _, _)
LCmpFrom(a, b, i) ==
    IF i = 0 THEN 0
    ELSE IF a[i] < b[i] THEN -1
    ELSE IF a[i] > b[i] THEN 1
    ELSE LCmpFrom(a, b, i - 1)

LCmp(a, b) == IF Len(a) < Len(b) THEN -1
              ELSE IF Len(a) > Len(b) THEN 1
              ELSE LCmpFrom(a, b, Len(a))

\* a * b: the sum of a * b[i] * 10^(4(i-1)), from the top limb of b down
RECURSIVE LMulFrom(_, _, _, _)
LMulFrom(a, b, i, acc) ==
    IF i = 0 THEN acc
    ELSE LET shifted == IF acc = <<>> THEN <<>> ELSE <<0>> \o acc
             nxt     == LAdd(shifted, LMulSmall(a, b[i]))
         IN  IF Len(nxt) >= 0 THEN LMulFrom(a, b, i - 1, nxt) ELSE <<>>

LMul(a, b) == LMulFrom(a, b, Len(b), <<>>)

\* the largest q in lo..hi with D * q <= R
RECURSIVE QuotLimb(_, _, _, _)
QuotLimb(R, D, lo, hi) ==
    IF lo = hi THEN lo
    ELSE LET mid == (lo + hi + 1) \div 2
         IN  IF LCmp(LMulSmall(D, mid), R) <= 0 THEN QuotLimb(R, D, mid, hi)
             ELSE QuotLimb(R, D, lo, mid - 1)

\* long division of N by D (D # <<>>) from limb i of N down:
\* <<quotient, remainder>>
RECURSIVE LDivFrom(_, _, _, _, _)
LDivFrom(N, D, i, R, Q) ==
    IF i = 0 THEN <<StripTop(Q), R>>
    ELSE LET R1 == StripTop(<<N[i]>> \o R)
             q  == QuotLimb(R1, D, 0, 9999)
             R2 == LSub(R1, LMulSmall(D, q))
             Q2 == <<q>> \o Q
         IN  IF Len(R2) >= 0 /\ Len(Q2) >= 0 THEN LDivFrom(N, D, i - 1, R2, Q2)
             ELSE <<>>

LDivMod(N, D) == LDivFrom(N, D, Len(N), <<>>, <<>>)

NatAdd(a, b) == ToDigits(LAdd(ToLimbs(a), ToLimbs(b)))
NatSub(a, b) == ToDigits(LSub(ToLimbs(a), ToLimbs(b)))
NatMul(a, b) == ToDigits(LMul(ToLimbs(a), ToLimbs(b)))
NatCmp(a, b) == LCmp(ToLimbs(a), ToLimbs(b))

-----------------------------------------------------------------------------
(* decimal.Decimal under the context the modules set.  A value is          *)
(* (-1)^neg * dig * 10^exp, kept canonical (no leading or trailing zero    *)
(* digit), so that equal records are numerically equal Decimals.           *)

\* A call by name: Call(f, args) is what the function or method f does on
\* the arguments args, as Python finds f where the modules define it.
RECURSIVE Call(_, _)

Prec == 30

DZero == [neg |-> FALSE, dig |-> <<>>, exp |-> 0]

\* canonical form of a coefficient of at most Prec digits
DCanon(neg, dig, exp) ==
    LET d  == StripLead(dig)
        nz == {i \in 1..Len(d) : d[i] # 0}
    IN  IF d = <<>> THEN DZero
        ELSE LET l == CHOOSE i \in nz : \A j \in nz : i >= j
             IN  [neg |-> neg, dig |-> SubSeq(d, 1, l), exp |-> exp + (Len(d) - l)]

\* the context's rounding (ROUND_HALF_EVEN to Prec significant digits) of
\* the exact value dig * 10^exp; sticky says a nonzero part lies below dig
DRound(neg, dig0, exp, sticky) ==
    LET dig == StripLead(dig0)
        n   == Len(dig)
    IN  IF n <= Prec THEN DCanon(neg, dig, exp)
        ELSE LET keep == SubSeq(dig, 1, Prec)
                 r    == dig[Prec + 1]
                 rest == \E j \in (Prec + 2)..n : dig[j] # 0
                 up   == \/ r > 5
                         \/ r = 5 /\ (rest \/ sticky \/ keep[Prec] % 2 = 1)
             IN  DCanon(neg, IF up THEN NatAdd(keep, <<1>>) ELSE keep,
                        exp + (n - Prec))

\* Decimal(n) of an integer n below 10^4 in magnitude
Dec(n) == LET m == IF n < 0 THEN -n ELSE n
          IN  DCanon(n < 0, ToDigits(IF m = 0 THEN <<>> ELSE <<m>>), 0)

DNeg(x) == IF x.dig = <<>> THEN x ELSE [x EXCEPT !.neg = ~x.neg]

DAbs(x) == [x EXCEPT !.neg = FALSE]

\* the position just above the top digit: |x| < 10^DTop(x)
DTop(x) == Len(x.dig) + x.exp

\* compare magnitudes: -1, 0, 1
DCmpMag(x, y) ==
    IF x.dig = <<>> THEN (IF y.dig = <<>> THEN 0 ELSE -1)
    ELSE IF y.dig = <<>> THEN 1
    ELSE IF DTop(x) < DTop(y) THEN -1
    ELSE IF DTop(x) > DTop(y) THEN 1
    ELSE LET m  == IF Len(x.dig) > Len(y.dig) THEN Len(x.dig) ELSE Len(y.dig)
         IN  NatCmp(x.dig \o Zeros(m - Len(x.dig)), y.dig \o Zeros(m - Len(y.dig)))

\* x + y for |x| >= |y| > 0.  An operand wholly below the digits the
\* rounding looks at acts on the result as any nonzero amount there does.
DAddOrdered(x, y) ==
    LET low == DTop(x) - Prec - 3
        y1  == IF DTop(y) < low THEN [neg |-> y.neg, dig |-> <<1>>, exp |-> low - 1]
               ELSE y
        e   == IF x.exp < y1.exp THEN x.exp ELSE y1.exp
        cx  == x.dig \o Zeros(x.exp - e)
        cy  == y1.dig \o Zeros(y1.exp - e)
    IN  IF x.neg = y.neg THEN Call("DRound", <<x.neg, NatAdd(cx, cy), e, FALSE>>)
        ELSE Call("DRound", <<x.neg, NatSub(cx, cy), e, FALSE>>)

DAdd(x, y) ==
    IF x.dig = <<>> THEN y
    ELSE IF y.dig = <<>> THEN x
    ELSE IF DCmpMag(x, y) >= 0 THEN DAddOrdered(x, y)
    ELSE DAddOrdered(y, x)

DSub(x, y) == Call("DAdd", <<x, DNeg(y)>>)

DMul(x, y) ==
    IF x.dig = <<>> \/ y.dig = <<>> THEN DZero
    ELSE Call("DRound", <<x.neg # y.neg, NatMul(x.dig, y.dig), x.exp + y.exp, FALSE>>)

\* x / y for y # 0 (the callers raise what a division by zero raises): the
\* quotient to more than Prec digits and a sticky remainder
DDiv(x, y) ==
    IF x.dig = <<>> THEN DZero
    ELSE LET k  == Prec + 1 + Len(y.dig) - Len(x.dig)
             qr == LDivMod(ToLimbs(x.dig \o Zeros(k)), ToLimbs(y.dig))
         IN  Call("DRound", <<x.neg # y.neg, ToDigits(qr[1]), x.exp - y.exp - k,
                              qr[2] # <<>> >>)

-----------------------------------------------------------------------------
(* Exceptions are modelled by their message (or class name); NoExc is a    *)
(* normal return.  None is python's None.                                  *)

NoExc == "none"
None == <<>>

NO_NONZERO_ELTS_FOUND_MSG == "No nonzero elements found"
\* the literal is continued over a line break inside its quotes: the
\* indentation of the second line is part of the text
EITHER_DIM_OR_NORMAL_VEC_MUST_BE_PROVIDED_MSG ==
    "Either the dimension                 of the hyperplane or the normal vector must be provided"
ALL_PLANES_MUST_BE_IN_SAME_DIM_MSG ==
    "All planes in the system should live in the same dimension"
NO_SOLUTIONS_MSG == "No solutions"
INF_SOLUTIONS_MSG == "Infinitely many solutions"
IndexError == "IndexError"
AttributeError == "AttributeError"
DivisionByZero == "DivisionByZero"
InvalidOperation == "InvalidOperation"
DimensionMismatch == "dimension mismatch"

\* the float 1e-10 that is_near_zero compares with, exactly
Eps ==
    [neg |-> FALSE, exp |-> -86, dig |-> <<
        1, 0, 0, 0, 0, 0, 0, 0, 0, 0, 0, 0, 0, 0, 0, 0, 0, 3, 6, 4,
        3, 2, 1, 9, 7, 3, 1, 5, 4, 9, 7, 7, 4, 1, 5, 7, 9, 1, 6, 5,
        5, 4, 7, 0, 6, 5, 5, 9, 9, 6, 3, 9, 6, 0, 8, 9, 9, 0, 4, 0,
        1, 0, 2, 9, 5, 8, 6, 7, 9, 1, 9, 9, 2, 1, 8, 7, 5 >>]

\* MyDecimal(x).is_near_zero(): abs(x) < eps
is_near_zero(x) == DCmpMag(x, Eps) < 0

-----------------------------------------------------------------------------
(* The Vector interface (section 4.1 of the specification): a vector is    *)
(* the sequence of its coordinates, each a Decimal.  An operation returns  *)
(* [exc, val]; it fails when the operands' dimensions differ.              *)

Vector(ints) == [i \in 1..Len(ints) |-> Call("Dec", <<ints[i]>>)]

VecOk(v) == [exc |-> NoExc, val |-> v]
VecFail(e) == [exc |-> e, val |-> <<>>]

scalar_multiply(v, c) == [i \in 1..Len(v) |-> Call("DMul", <<c, v[i]>>)]

add(v, w) == IF Len(v) # Len(w) THEN VecFail(DimensionMismatch)
             ELSE VecOk([i \in 1..Len(v) |-> Call("DAdd", <<v[i], w[i]>>)])

substract(v, w) == IF Len(v) # Len(w) THEN VecFail(DimensionMismatch)
                   ELSE VecOk([i \in 1..Len(v) |-> Call("DSub", <<v[i], w[i]>>)])

RECURSIVE DotFrom(_, _, _)
DotFrom(v, w, i) == IF i > Len(v) THEN DZero
                    ELSE Call("DAdd", <<Call("DMul", <<v[i], w[i]>>), DotFrom(v, w, i + 1)>>)

dot(v, w) == IF Len(v) # Len(w) THEN VecFail(DimensionMismatch)
             ELSE VecOk(DotFrom(v, w, 1))

\* magnitude below the tolerance 1e-10: the squared magnitude below 1e-20
is_zero(v) == DCmpMag(DotFrom(v, v, 1), [neg |-> FALSE, dig |-> <<1>>, exp |-> -20]) < 0

\* dot product within the tolerance of zero
is_orthogonal(v, w) ==
    LET d == Call("dot", <<v, w>>)
    IN  IF d.exc # NoExc THEN [exc |-> d.exc, val |-> FALSE]
        ELSE [exc |-> NoExc, val |-> Call("is_near_zero", <<d.val>>)]

\* one vector is a scalar multiple of the other (the zero vector is
\* parallel to every vector): all 2x2 minors of the pair vanish
is_parallel(v, w) ==
    IF Len(v) # Len(w) THEN [exc |-> DimensionMismatch, val |-> FALSE]
    ELSE [exc |-> NoExc,
          val |-> \A i, j \in 1..Len(v) :
                     i < j => Call("is_near_zero",
                                   <<Call("DSub", <<Call("DMul", <<v[i], w[j]>>),
                                                    Call("DMul", <<v[j], w[i]>>)>>)>>)]

-----------------------------------------------------------------------------
(* plane.py, hyperplane.py                                                 *)

\* index (from 0) of the first item that is not near zero; -1 stands for
\* the exception 'No nonzero elements found'
first_nonzero_index(iterable) ==
    LET nz == {k \in 1..Len(iterable) : ~Call("is_near_zero", <<iterable[k]>>)}
    IN  IF nz = {} THEN -1
        ELSE (CHOOSE k \in nz : \A j \in nz : k <= j) - 1

\* set_basepoint of an object whose attributes normal_vector (when has_n),
\* constant_term and dimension are set: [exc, basepoint]
set_basepoint(has_n, n, c, dimension) ==
    IF ~has_n THEN [exc |-> AttributeError, basepoint |-> None]
    ELSE LET initial_index == Call("first_nonzero_index", <<n>>)
         IN  IF initial_index < 0 THEN [exc |-> NoExc, basepoint |-> None]
             ELSE IF initial_index >= dimension
                  THEN [exc |-> IndexError, basepoint |-> None]
             ELSE [exc |-> NoExc,
                   basepoint |-> [i \in 1..dimension |->
                                    IF i = initial_index + 1
                                    THEN Call("DDiv", <<c, n[initial_index + 1]>>)
                                    ELSE DZero]]

PlaneDimension == 3

\* Plane(normal_vector, constant_term): [exc, obj]; normal_vector = None
\* and constant_term = DZero stand for the arguments left out
Plane(normal_vector, constant_term) ==
    LET n  == IF normal_vector = None THEN Call("Vector", <<Zeros(PlaneDimension)>>)
              ELSE normal_vector
        bp == set_basepoint(TRUE, n, constant_term, PlaneDimension)
    IN  [exc |-> bp.exc,
         obj |-> [normal_vector |-> n, constant_term |-> constant_term,
                  dimension |-> PlaneDimension, basepoint |-> bp.basepoint]]

\* Hyperplane(dimension, normal_vector, constant_term): [exc, obj];
\* dimension = 0 and normal_vector = None stand for the arguments left out.
\* The constructor never assigns self.normal_vector.
Hyperplane(dimension, normal_vector, constant_term) ==
    IF dimension = 0 /\ normal_vector = None
    THEN [exc |-> EITHER_DIM_OR_NORMAL_VEC_MUST_BE_PROVIDED_MSG, obj |-> None]
    ELSE LET dim == IF normal_vector = None THEN dimension ELSE Len(normal_vector)
             bp  == set_basepoint(FALSE, None, constant_term, dim)
         IN  [exc |-> bp.exc,
              obj |-> [constant_term |-> constant_term, dimension |-> dim,
                       basepoint |-> bp.basepoint]]

\* Plane.__eq__ (Hyperplane.__eq__ is the same text): [exc, val]
plane_eq(self, p) ==
    IF Call("is_zero", <<self.normal_vector>>)
    THEN IF ~Call("is_zero", <<p.normal_vector>>) THEN [exc |-> NoExc, val |-> FALSE]
         ELSE [exc |-> NoExc,
               val |-> Call("is_near_zero",
                            <<Call("DSub", <<self.constant_term, p.constant_term>>)>>)]
    ELSE IF Call("is_zero", <<p.normal_vector>>) THEN [exc |-> NoExc, val |-> FALSE]
    ELSE LET par == Call("is_parallel", <<self.normal_vector, p.normal_vector>>)
         IN  IF par.exc # NoExc THEN par
             ELSE IF ~par.val THEN [exc |-> NoExc, val |-> FALSE]
             ELSE IF self.basepoint = None \/ p.basepoint = None
                  THEN [exc |-> AttributeError, val |-> FALSE]
             ELSE LET basepoint_diff == Call("substract", <<self.basepoint, p.basepoint>>)
                  IN  IF basepoint_diff.exc # NoExc
                      THEN [exc |-> basepoint_diff.exc, val |-> FALSE]
                      ELSE Call("is_orthogonal", <<basepoint_diff.val, self.normal_vector>>)

-----------------------------------------------------------------------------
(* linsys.py.  A LinearSystem is [planes, dimension]; an operation on one  *)
(* takes and returns [planes, dimension, exc]: the object as the operation *)
(* leaves it and the exception it raised.  Rows and columns are counted    *)
(* from 0 as in the source.                                                *)

\* LinearSystem(planes): [exc, obj]
LinearSystem(planes) ==
    IF planes = <<>> THEN [exc |-> IndexError, obj |-> None]
    ELSE LET d == planes[1].dimension
         IN  IF \E i \in 1..Len(planes) : planes[i].dimension # d
             THEN [exc |-> ALL_PLANES_MUST_BE_IN_SAME_DIM_MSG, obj |-> None]
             ELSE [exc |-> NoExc, obj |-> [planes |-> planes, dimension |-> d]]

Running(sys) == [planes |-> sys.planes, dimension |-> sys.dimension, exc |-> NoExc]

Raise(S, e) == [S EXCEPT !.exc = e]

\* __setitem__(i, x)
setitem(S, i, x) ==
    IF x.dimension # S.dimension THEN Raise(S, ALL_PLANES_MUST_BE_IN_SAME_DIM_MSG)
    ELSE [S EXCEPT !.planes[i + 1] = x]

\* an add_multiple_times_row_to_row that leaves the constant term as it was
add_multiple_to_normal_vector_only(S, coefficient, row_to_add, row_to_be_added_to) ==
    LET plane1 == S.planes[row_to_add + 1]
        plane2 == S.planes[row_to_be_added_to + 1]
        new_normal_vector ==
            Call("add", <<Call("scalar_multiply", <<plane1.normal_vector, coefficient>>),
                          plane2.normal_vector>>)
        new == Call("Plane", <<new_normal_vector.val, plane2.constant_term>>)
    IN  IF new_normal_vector.exc # NoExc THEN Raise(S, new_normal_vector.exc)
        ELSE IF new.exc # NoExc THEN Raise(S, new.exc)
        ELSE [S EXCEPT !.planes[row_to_be_added_to + 1] = new.obj]

add_multiple_times_row_to_row(S, coefficient, row_to_add, row_to_be_added_to) ==
    LET plane1 == S.planes[row_to_add + 1]
        plane2 == S.planes[row_to_be_added_to + 1]
        new_normal_vector ==
            Call("add", <<Call("scalar_multiply", <<plane1.normal_vector, coefficient>>),
                          plane2.normal_vector>>)
        new_constant_term ==
            Call("DAdd", <<Call("DMul", <<plane1.constant_term, coefficient>>),
                           plane2.constant_term>>)
        new == Call("Plane", <<new_normal_vector.val, new_constant_term>>)
    IN  IF new_normal_vector.exc # NoExc THEN Raise(S, new_normal_vector.exc)
        ELSE IF new.exc # NoExc THEN Raise(S, new.exc)
        ELSE [S EXCEPT !.planes[row_to_be_added_to + 1] = new.obj]

indices_of_first_nonzero_terms_in_each_row(S) ==
    [i \in 1..Len(S.planes) |-> Call("first_nonzero_index", <<S.planes[i].normal_vector>>)]

swap_rows(S, row1, row2) ==
    [S EXCEPT !.planes[row2 + 1] = S.planes[row1 + 1],
              !.planes[row1 + 1] = S.planes[row2 + 1]]

multiply_coefficient_and_row(S, coefficient, row) ==
    LET plane == S.planes[row + 1]
        new   == Call("Plane", <<Call("scalar_multiply", <<plane.normal_vector, coefficient>>),
                       Call("DMul", <<plane.constant_term, coefficient>>)>>)
    IN  IF new.exc # NoExc THEN Raise(S, new.exc)
        ELSE [S EXCEPT !.planes[row + 1] = new.obj]

\* self[row].normal_vector[col] can be read
HasCoeff(S, row, col) == col + 1 <= Len(S.planes[row + 1].normal_vector)

Coeff(S, row, col) == S.planes[row + 1].normal_vector[col + 1]

\* the loop of swap_with_row_below_for_nonzero_coefficient from row k on:
\* [S, swapped]
RECURSIVE SwapBelowFrom(_, _, _, _)
SwapBelowFrom(S, row, col, k) ==
    IF k >= Len(S.planes) THEN [S |-> S, swapped |-> FALSE]
    ELSE IF ~HasCoeff(S, k, col) THEN [S |-> Raise(S, IndexError), swapped |-> FALSE]
    ELSE IF ~Call("is_near_zero", <<Coeff(S, k, col)>>)
         THEN [S |-> swap_rows(S, row, k), swapped |-> TRUE]
    ELSE SwapBelowFrom(S, row, col, k + 1)

swap_with_row_below_for_nonzero_coefficient(S, row, col) ==
    SwapBelowFrom(S, row, col, row + 1)

\* the loop of clear_coeffs_below from row k on
RECURSIVE ClearBelowFrom(_, _, _, _, _)
ClearBelowFrom(S, row, col, beta, k) ==
    IF S.exc # NoExc \/ k >= Len(S.planes) THEN S
    ELSE IF ~HasCoeff(S, k, col) THEN Raise(S, IndexError)
    ELSE IF beta.dig = <<>>
         THEN Raise(S, IF Coeff(S, k, col).dig = <<>> THEN InvalidOperation
                       ELSE DivisionByZero)
    ELSE LET gamma == Coeff(S, k, col)
             alpha == Call("DDiv", <<DNeg(gamma), beta>>)
         IN  ClearBelowFrom(Call("add_multiple_times_row_to_row", <<S, alpha, row, k>>),
                            row, col, beta, k + 1)

clear_coeffs_below(S, row, col) ==
    IF ~HasCoeff(S, row, col) THEN Raise(S, IndexError)
    ELSE ClearBelowFrom(S, row, col, Coeff(S, row, col), row + 1)

\* the loop of clear_coefficients_above from row k down
RECURSIVE ClearAboveFrom(_, _, _, _)
ClearAboveFrom(S, row, col, k) ==
    IF S.exc # NoExc \/ k < 0 THEN S
    ELSE IF ~HasCoeff(S, k, col) THEN Raise(S, IndexError)
    ELSE LET alpha == DNeg(Coeff(S, k, col))
         IN  ClearAboveFrom(Call("add_multiple_times_row_to_row", <<S, alpha, row, k>>),
                            row, col, k - 1)

clear_coefficients_above(S, row, col) == ClearAboveFrom(S, row, col, row - 1)

scale_row_to_make_coefficient_equal_one(S, row, col) ==
    IF ~HasCoeff(S, row, col) THEN Raise(S, IndexError)
    ELSE IF Coeff(S, row, col).dig = <<>> THEN Raise(S, DivisionByZero)
    ELSE Call("multiply_coefficient_and_row",
              <<S, Call("DDiv", <<Call("Dec", <<1>>), Coeff(S, row, col)>>), row>>)

\* the for/while loops of compute_triangular_form at (row, col), on the copy
RECURSIVE TriangularFrom(_, _, _)
TriangularFrom(S, row, col) ==
    IF S.exc # NoExc \/ row >= Len(S.planes) \/ col >= S.dimension THEN S
    ELSE IF ~HasCoeff(S, row, col) THEN Raise(S, IndexError)
    ELSE IF Call("is_near_zero", <<Coeff(S, row, col)>>)
         THEN LET sw == swap_with_row_below_for_nonzero_coefficient(S, row, col)
              IN  IF sw.S.exc # NoExc THEN sw.S
                  ELSE IF ~sw.swapped THEN TriangularFrom(S, row, col + 1)
                  ELSE TriangularFrom(clear_coeffs_below(sw.S, row, col),
                                      row + 1, col + 1)
    ELSE TriangularFrom(clear_coeffs_below(S, row, col), row + 1, col + 1)

\* compute_triangular_form working on `system`, its deepcopy of self
compute_triangular_form(system) == TriangularFrom(system, 0, 0)

\* the loop of compute_rref from row `row` down
RECURSIVE RrefFrom(_, _, _)
RrefFrom(S, pivot_indices, row) ==
    IF S.exc # NoExc \/ row < 0 THEN S
    ELSE LET pivot_var == pivot_indices[row + 1]
         IN  IF pivot_var < 0 THEN RrefFrom(S, pivot_indices, row - 1)
             ELSE LET scaled == scale_row_to_make_coefficient_equal_one(S, row, pivot_var)
                  IN  IF scaled.exc # NoExc THEN scaled
                      ELSE RrefFrom(clear_coefficients_above(scaled, row, pivot_var),
                                    pivot_indices, row - 1)

compute_rref(system) ==
    LET triangular_form == Call("compute_triangular_form", <<system>>)
    IN  IF triangular_form.exc # NoExc THEN triangular_form
        ELSE RrefFrom(triangular_form,
                      Call("indices_of_first_nonzero_terms_in_each_row", <<triangular_form>>),
                      Len(triangular_form.planes) - 1)

raise_excepion_if_contradictory_equation(S) ==
    IF \E i \in 1..Len(S.planes) :
          /\ Call("first_nonzero_index", <<S.planes[i].normal_vector>>) < 0
          /\ ~Call("is_near_zero", <<S.planes[i].constant_term>>)
    THEN Raise(S, NO_SOLUTIONS_MSG) ELSE S

raise_excepion_if_too_few_pivots(S) ==
    LET pivot_indices == Call("indices_of_first_nonzero_terms_in_each_row", <<S>>)
        num_pivots    == Cardinality({i \in 1..Len(pivot_indices) : pivot_indices[i] >= 0})
    IN  IF num_pivots < S.dimension THEN Raise(S, INF_SOLUTIONS_MSG) ELSE S

\* the inner loop of extract_direction_vectors_for_parametrization for one
\* free variable, from row `index` on: [exc, val], val the list vector_coords
RECURSIVE DirectionCoordsFrom(_, _, _, _, _)
DirectionCoordsFrom(S, pivot_indices, free_var, index, vector_coords) ==
    IF index >= Len(S.planes) THEN VecOk(vector_coords)
    ELSE LET pivot_var == pivot_indices[index + 1]
         IN  IF pivot_var < 0 THEN VecOk(vector_coords)
             ELSE IF ~HasCoeff(S, index, free_var) \/ pivot_var >= Len(vector_coords)
                  THEN VecFail(IndexError)
             ELSE DirectionCoordsFrom(S, pivot_indices, free_var, index + 1,
                     [vector_coords EXCEPT ![pivot_var + 1] = DNeg(Coeff(S, index, free_var))])

\* the outer loop, over the free variables from free_var on (the set of
\* free variables is walked in increasing order): [exc, val]
RECURSIVE DirectionVectorsFrom(_, _, _, _)
DirectionVectorsFrom(S, pivot_indices, free_var, direction_vectors) ==
    IF free_var >= S.dimension THEN VecOk(direction_vectors)
    ELSE IF \E i \in 1..Len(pivot_indices) : pivot_indices[i] = free_var
         THEN DirectionVectorsFrom(S, pivot_indices, free_var + 1, direction_vectors)
    ELSE LET v == DirectionCoordsFrom(S, pivot_indices, free_var, 0,
                     [i \in 1..S.dimension |->
                         IF i = free_var + 1 THEN Call("Dec", <<1>>) ELSE DZero])
         IN  IF v.exc # NoExc THEN v
             ELSE DirectionVectorsFrom(S, pivot_indices, free_var + 1,
                                       Append(direction_vectors, v.val))

extract_direction_vectors_for_parametrization(S) ==
    DirectionVectorsFrom(S, Call("indices_of_first_nonzero_terms_in_each_row", <<S>>), 0, <<>>)

RECURSIVE BasepointFrom(_, _, _, _)
BasepointFrom(S, pivot_indices, index, basepoint_coords) ==
    IF index >= Len(S.planes) THEN VecOk(basepoint_coords)
    ELSE LET pivot_var == pivot_indices[index + 1]
         IN  IF pivot_var < 0 THEN VecOk(basepoint_coords)
             ELSE IF pivot_var >= Len(basepoint_coords) THEN VecFail(IndexError)
             ELSE BasepointFrom(S, pivot_indices, index + 1,
                     [basepoint_coords EXCEPT ![pivot_var + 1] = S.planes[index + 1].constant_term])

extract_basepoint_for_parametrization(S) ==
    BasepointFrom(S, Call("indices_of_first_nonzero_terms_in_each_row", <<S>>), 0,
                  [i \in 1..S.dimension |-> DZero])

\* (the indentation of the literal's second line is part of the text)
BASEPT_AND_DIR_VECTORS_MUST_BE_IN_SAME_DIM ==
    "The basepoint and             direction vectors should all live in the same dimension"

\* what a call returns or raises: exc, and when exc = NoExc the value:
\* kind "system" (a LinearSystem, named by its reference), "Parametrization"
\* (basepoint, direction_vectors), "str" (text), "bool" (bool) or "None"
NoValue == [kind |-> "None", system |-> "none", basepoint |-> <<>>,
            direction_vectors |-> <<>>, text |-> "", bool |-> FALSE]

Raised(e) == [exc |-> e, value |-> NoValue]

Returned(v) == [exc |-> NoExc, value |-> v]

\* Parametrization(basepoint, direction_vectors)
Parametrization(basepoint, direction_vectors) ==
    IF \E i \in 1..Len(direction_vectors) : Len(direction_vectors[i]) # Len(basepoint)
    THEN Raised(BASEPT_AND_DIR_VECTORS_MUST_BE_IN_SAME_DIM)
    ELSE Returned([NoValue EXCEPT !.kind = "Parametrization", !.basepoint = basepoint,
                                  !.direction_vectors = direction_vectors])

\* do_gaussian_elimination_and_parametrization, given rref = self.compute_rref()
\* as compute_rref left it
do_gaussian_elimination_and_parametrization(rref) ==
    IF rref.exc # NoExc THEN Raised(rref.exc)
    ELSE LET checked == raise_excepion_if_contradictory_equation(rref)
             direction_vectors == extract_direction_vectors_for_parametrization(rref)
             basepoint == extract_basepoint_for_parametrization(rref)
         IN  IF checked.exc # NoExc THEN Raised(checked.exc)
             ELSE IF direction_vectors.exc # NoExc THEN Raised(direction_vectors.exc)
             ELSE IF basepoint.exc # NoExc THEN Raised(basepoint.exc)
             ELSE Parametrization(basepoint.val, direction_vectors.val)

\* compute_solution, given what do_gaussian_elimination_and_parametrization did
compute_solution(done) ==
    IF done.exc = NO_SOLUTIONS_MSG \/ done.exc = INF_SOLUTIONS_MSG
    THEN Returned([NoValue EXCEPT !.kind = "str", !.text = done.exc])
    ELSE done

Call(f, args) ==
    CASE f = "DAdd" -> DAdd(args[1], args[2])
      [] f = "DSub" -> DSub(args[1], args[2])
      [] f = "DMul" -> DMul(args[1], args[2])
      [] f = "DDiv" -> DDiv(args[1], args[2])
      [] f = "DRound" -> DRound(args[1], args[2], args[3], args[4])
      [] f = "Dec" -> Dec(args[1])
      [] f = "is_near_zero" -> is_near_zero(args[1])
      [] f = "Vector" -> Vector(args[1])
      [] f = "scalar_multiply" -> scalar_multiply(args[1], args[2])
      [] f = "add" -> add(args[1], args[2])
      [] f = "substract" -> substract(args[1], args[2])
      [] f = "dot" -> dot(args[1], args[2])
      [] f = "is_zero" -> is_zero(args[1])
      [] f = "is_orthogonal" -> is_orthogonal(args[1], args[2])
      [] f = "is_parallel" -> is_parallel(args[1], args[2])
      [] f = "first_nonzero_index" -> first_nonzero_index(args[1])
      [] f = "Plane" -> Plane(args[1], args[2])
      [] f = "Hyperplane" -> Hyperplane(args[1], args[2], args[3])
      [] f = "plane_eq" -> plane_eq(args[1], args[2])
      [] f = "add_multiple_times_row_to_row" ->
             add_multiple_times_row_to_row(args[1], args[2], args[3], args[4])
      [] f = "indices_of_first_nonzero_terms_in_each_row" ->
             indices_of_first_nonzero_terms_in_each_row(args[1])
      [] f = "multiply_coefficient_and_row" ->
             multiply_coefficient_and_row(args[1], args[2], args[3])
      [] f = "compute_triangular_form" -> compute_triangular_form(args[1])
      [] f = "compute_rref" -> compute_rref(args[1])
      [] f = "do_gaussian_elimination_and_parametrization" ->
             do_gaussian_elimination_and_parametrization(args[1])

-----------------------------------------------------------------------------
(* The objects.  store maps a reference to the LinearSystem it names:      *)
(* "self" is the caller's system, "copy" and "copy2" are what deepcopy     *)
(* creates.  ret is the last call, with its arguments and what it         *)
(* returned or raised, nops the number of calls made, operand the         *)
(* literals the caller built its objects from, orig the caller's rows as   *)
(* they were built.                                                        *)

NoSystem == [planes |-> <<>>, dimension |-> 0]

\* a copy that is the object itself
same_object(ref) == ref

\* system = deepcopy(self): the reference of the fresh object
deepcopy(ref) == IF ref = "self" THEN "copy" ELSE "copy2"

AsSystem(S) == [planes |-> S.planes, dimension |-> S.dimension]

SystemValue(ref) == [NoValue EXCEPT !.kind = "system", !.system = ref]

\* Vector([n_1, ..., n_k]) of a literal row <<n_1, ..., n_k, c>>
CoefficientsOfRow(row) == Call("Vector", <<SubSeq(row, 1, Len(row) - 1)>>)

\* Plane(Vector([...]), c) from a literal row
PlaneOf(row) == Call("Plane", <<CoefficientsOfRow(row), Call("Dec", <<row[Len(row)]>>)>>)

PlanesOf(rows) == [i \in 1..Len(rows) |-> PlaneOf(rows[i]).obj]

-----------------------------------------------------------------------------
(* Bounds of the model.                                                    *)

MaxRows == 3

\* rows of three unknowns
Rows3 == { <<1, 1, 1, 1>>, <<0, 1, 0, 2>>, <<0, 0, 1, 3>>, <<0, 0, 0, 0>>,
           <<0, 0, 0, 5>>, <<3, 1, 0, 1>> }

\* rows of four unknowns
Rows4 == { <<1, 1, 1, 1, 1>>, <<1, 1, 2, 2, 2>>, <<1, 1, 1, 2, 1>>, <<1, 1, 1, 1, 5>> }

\* the sequences of 1..MaxRows different rows of a pool
SeqsOf(pool) ==
    UNION { { q \in [1..n -> pool] : \A i, j \in 1..n : i # j => q[i] # q[j] }
            : n \in 1..MaxRows }

Systems == SeqsOf(Rows3) \cup SeqsOf(Rows4)

-----------------------------------------------------------------------------
(* The solving pipeline: one call on a freshly constructed system.         *)
(* compute_triangular_form, compute_rref and what is built on them work on *)
(* a copy and read the caller's system only; the steps of the elimination  *)
(* (swap_with_row_below_for_nonzero_coefficient, clear_coeffs_below,       *)
(* clear_coefficients_above, scale_row_to_make_coefficient_equal_one),     *)
(* called on the caller's system, change it in place.                      *)

Fresh == ret.op = "none"

Called(op, args, r) == [op |-> op, args |-> args, exc |-> r.exc, value |-> r.value]

SystemResult(S, ref) == IF S.exc = NoExc THEN Returned(SystemValue(ref)) ELSE Raised(S.exc)

InitSolve ==
    /\ operand \in Systems
    /\ store = [self |-> LinearSystem(PlanesOf(operand)).obj, copy |-> NoSystem,
                copy2 |-> NoSystem]
    /\ orig = PlanesOf(operand)
    /\ ret = Called("none", <<>>, Raised(NoExc))
    /\ nops = 0

ComputeTriangularForm ==
    /\ Fresh
    /\ LET system == deepcopy("self")
           T      == Call("compute_triangular_form", <<Running(store["self"])>>)
       IN  /\ store' = [store EXCEPT ![system] = AsSystem(T)]
           /\ ret' = Called("compute_triangular_form", <<>>, SystemResult(T, system))
           /\ UNCHANGED <<orig, nops, operand>>

ComputeRref ==
    /\ Fresh
    /\ LET system == deepcopy("self")
           R      == Call("compute_rref", <<Running(store["self"])>>)
       IN  /\ store' = [store EXCEPT ![system] = AsSystem(R)]
           /\ ret' = Called("compute_rref", <<>>, SystemResult(R, system))
           /\ UNCHANGED <<orig, nops, operand>>

\* self.compute_rref().compute_rref()
ComputeRrefOfRref ==
    /\ Fresh
    /\ LET system  == deepcopy("self")
           R       == Call("compute_rref", <<Running(store["self"])>>)
           store1  == [store EXCEPT ![system] = AsSystem(R)]
           system2 == deepcopy(system)
           R2      == Call("compute_rref", <<Running(store1[system])>>)
       IN  IF R.exc # NoExc
           THEN /\ store' = store1
                /\ ret' = Called("compute_rref of compute_rref", <<>>, Raised(R.exc))
                /\ UNCHANGED <<orig, nops, operand>>
           ELSE /\ store' = [store1 EXCEPT ![system2] = AsSystem(R2)]
                /\ ret' = Called("compute_rref of compute_rref", <<>>, SystemResult(R2, system2))
                /\ UNCHANGED <<orig, nops, operand>>

DoGaussianEliminationAndParametrization ==
    /\ Fresh
    /\ LET system == deepcopy("self")
           R      == Call("compute_rref", <<Running(store["self"])>>)
       IN  /\ store' = [store EXCEPT ![system] = AsSystem(R)]
           /\ ret' = Called("do_gaussian_elimination_and_parametrization", <<>>,
                            Call("do_gaussian_elimination_and_parametrization", <<R>>))
           /\ UNCHANGED <<orig, nops, operand>>

ComputeSolution ==
    /\ Fresh
    /\ LET system == deepcopy("self")
           R      == Call("compute_rref", <<Running(store["self"])>>)
       IN  /\ store' = [store EXCEPT ![system] = AsSystem(R)]
           /\ ret' = Called("compute_solution", <<>>,
                            compute_solution(
                                Call("do_gaussian_elimination_and_parametrization", <<R>>)))
           /\ UNCHANGED <<orig, nops, operand>>

RaiseExceptionIfTooFewPivots ==
    /\ Fresh
    /\ LET S == raise_excepion_if_too_few_pivots(Running(store["self"]))
       IN  /\ ret' = Called("raise_excepion_if_too_few_pivots", <<>>,
                            IF S.exc = NoExc THEN Returned(NoValue) ELSE Raised(S.exc))
           /\ UNCHANGED <<store, orig, nops, operand>>

\* the columns a caller names: those of three unknowns and the one after
Columns == 0..PlaneDimension

\* the call op(row, col) on the caller's system leaves it as S and returns
\* or raises r
InPlace(op, row, col, S, r) ==
    /\ store' = [store EXCEPT !["self"] = AsSystem(S)]
    /\ ret' = Called(op, <<row, col>>, r)
    /\ UNCHANGED <<orig, nops, operand>>

\* what a call returning None gives, having left the system as S
NoneOrRaised(S) == IF S.exc = NoExc THEN Returned(NoValue) ELSE Raised(S.exc)

\* what swap_with_row_below_for_nonzero_coefficient gives
SwappedOrRaised(sw) ==
    IF sw.S.exc = NoExc
    THEN Returned([NoValue EXCEPT !.kind = "bool", !.bool = sw.swapped])
    ELSE Raised(sw.S.exc)

SwapWithRowBelowForNonzeroCoefficient ==
    /\ Fresh
    /\ \E row \in 0..(Len(store["self"].planes) - 1) : \E col \in Columns :
          LET sw == swap_with_row_below_for_nonzero_coefficient(
                        Running(store["self"]), row, col)
          IN  InPlace("swap_with_row_below_for_nonzero_coefficient", row, col,
                      sw.S, SwappedOrRaised(sw))

ClearCoeffsBelow ==
    /\ Fresh
    /\ \E row \in 0..(Len(store["self"].planes) - 1) : \E col \in Columns :
          LET S == clear_coeffs_below(Running(store["self"]), row, col)
          IN  InPlace("clear_coeffs_below", row, col, S, NoneOrRaised(S))

ClearCoefficientsAbove ==
    /\ Fresh
    /\ \E row \in 0..(Len(store["self"].planes) - 1) : \E col \in Columns :
          LET S == clear_coefficients_above(Running(store["self"]), row, col)
          IN  InPlace("clear_coefficients_above", row, col, S, NoneOrRaised(S))

ScaleRowToMakeCoefficientEqualOne ==
    /\ Fresh
    /\ \E row \in 0..(Len(store["self"].planes) - 1) : \E col \in Columns :
          LET S == scale_row_to_make_coefficient_equal_one(
                       Running(store["self"]), row, col)
          IN  InPlace("scale_row_to_make_coefficient_equal_one", row, col,
                      S, NoneOrRaised(S))

Next ==
    \/ ComputeTriangularForm
    \/ ComputeRref
    \/ ComputeRrefOfRref
    \/ DoGaussianEliminationAndParametrization
    \/ ComputeSolution
    \/ RaiseExceptionIfTooFewPivots
    \/ SwapWithRowBelowForNonzeroCoefficient
    \/ ClearCoeffsBelow
    \/ ClearCoefficientsAbove
    \/ ScaleRowToMakeCoefficientEqualOne

Spec == InitSolve /\ [][Next]_vars
-----------------------------------------------------------------------------
(* The row operations: a caller builds a system of two rows and changes it *)
(* in place, MaxOps times, by row replacement, swap, scaling and adding a  *)
(* multiple of a row to a row.                                             *)

MaxOps == 2

\* the rows a caller replaces a row by: three of three unknowns, one of four
OpsRows == { <<1, 1, 1, 1>>, <<0, 1, 0, 2>>, <<0, 0, 0, 5>>, <<1, 1, 1, 1, 1>> }

\* the systems a caller builds of them: independent, contradictory, repeated
\* rows, rows of different numbers of unknowns, rows of four unknowns, a
\* row of two-digit coefficients
OpsSystems == { << <<1, 1, 1, 1>>, <<0, 1, 0, 2>> >>,
                << <<33, 77, 0, 1>>, <<0, 1, 0, 2>> >>,
                << <<1, 1, 1, 1>>, <<0, 0, 0, 5>> >>,
                << <<1, 1, 1, 1>>, <<1, 1, 1, 1>> >>,
                << <<1, 1, 1, 1>>, <<1, 1, 1, 1, 1>> >>,
                << <<1, 1, 1, 1, 1>>, <<1, 1, 1, 1, 1>> >> }

\* Decimal('1.00000000000000000000000000001'): 1 and a unit in the last of
\* the Prec digits
OnePlusUlp == [neg |-> FALSE, dig |-> <<1>> \o Zeros(Prec - 2) \o <<1>>, exp |-> 1 - Prec]

\* the coefficients a caller adds multiples of a row by: Decimal('-1'),
\* Decimal('0') and Decimal('2')
Coefficients == {Dec(-1), Dec(0), Dec(2)}

\* the coefficients a caller scales a row by: these and OnePlusUlp
Scalings == Coefficients \cup {OnePlusUlp}

RowNumbers == 0..(Len(store["self"].planes) - 1)

Outcome(S) == IF S.exc = NoExc THEN Returned(NoValue) ELSE Raised(S.exc)

InitOps ==
    /\ operand \in OpsSystems
    /\ store = [self |-> LinearSystem(PlanesOf(operand)).obj, copy |-> NoSystem,
                copy2 |-> NoSystem]
    /\ orig = PlanesOf(operand)
    /\ ret = Called("LinearSystem", <<>>, Raised(LinearSystem(PlanesOf(operand)).exc))
    /\ nops = 0

\* the call op(args) on the caller's system leaves it as S
Apply(op, args, S) ==
    /\ nops < MaxOps
    /\ nops' = nops + 1
    /\ store' = [store EXCEPT !["self"] = AsSystem(S)]
    /\ ret' = Called(op, args, Outcome(S))
    /\ UNCHANGED <<orig, operand>>

SetItem ==
    \E i \in RowNumbers : \E row \in OpsRows :
        Apply("__setitem__", <<i, row>>,
              setitem(Running(store["self"]), i, PlaneOf(row).obj))

SwapRows ==
    \E row1, row2 \in RowNumbers :
        Apply("swap_rows", <<row1, row2>>, swap_rows(Running(store["self"]), row1, row2))

MultiplyCoefficientAndRow ==
    \E coefficient \in Scalings : \E row \in RowNumbers :
        Apply("multiply_coefficient_and_row", <<coefficient, row>>,
              Call("multiply_coefficient_and_row",
                   <<Running(store["self"]), coefficient, row>>))

AddMultipleTimesRowToRow ==
    \E coefficient \in Coefficients : \E row_to_add, row_to_be_added_to \in RowNumbers :
        Apply("add_multiple_times_row_to_row",
              <<coefficient, row_to_add, row_to_be_added_to>>,
              Call("add_multiple_times_row_to_row",
                   <<Running(store["self"]), coefficient,
                     row_to_add, row_to_be_added_to>>))

NextOps ==
    \/ SetItem
    \/ SwapRows
    \/ MultiplyCoefficientAndRow
    \/ AddMultipleTimesRowToRow

SpecOps == InitOps /\ [][NextOps]_vars

-----------------------------------------------------------------------------
(* Planes and hyperplanes: a caller constructs one from the first row of   *)
(* operand, or compares the Planes, or the Hyperplanes, of its two rows,   *)
(* the constant term of the second with operand[3] times 1E-11 added.      *)

\* rows <<n_1, ..., n_k, c>> of two, three and four coefficients
PlaneRows == { <<1, 2, 3, 1>>, <<2, 4, 6, 2>>, <<2, 4, 6, 3>>, <<-1, -2, -3, -1>>,
               <<1, 2, 4, 1>>, <<0, 0, 0, 0>>, <<0, 0, 0, 5>>, <<0, 1, 0, 2>>,
               <<0, 3, 0, 6>>, <<0, 0, 2, 0>>, <<3, 1, 0, 1>>, <<9, 3, 0, 3>>,
               <<1, 0, 0, 1, 1>>, <<2, 0, 0, 2, 2>>, <<0, 0, 0, 1, 1>>, <<1, 2, 1>> }

NoObject == [normal_vector |-> None, constant_term |-> DZero, dimension |-> 0,
             basepoint |-> None]

\* how many times 1E-11 the caller adds to the second constant term
Offsets == {0, 1}

\* Decimal('1E-11'): a tenth of the tolerance of is_near_zero
Tiny == [neg |-> FALSE, dig |-> <<1>>, exp |-> -11]

\* the constant term of the row, t times 1E-11 added:
\* Decimal('5.00000000001') for the row <<0, 0, 0, 5>> and t = 1
ConstantTermOf(row, t) ==
    IF t = 0 THEN Call("Dec", <<row[Len(row)]>>)
    ELSE Call("DAdd", <<Call("Dec", <<row[Len(row)]>>), Tiny>>)

\* Plane(Vector(n), c + t * 1E-11)
OffsetPlaneOf(row, t) == Call("Plane", <<CoefficientsOfRow(row), ConstantTermOf(row, t)>>)

InitPlane ==
    /\ operand \in PlaneRows \X PlaneRows \X Offsets
    /\ store = [self |-> NoObject, p |-> NoObject]
    /\ orig = <<>>
    /\ ret = Called("none", <<>>, Raised(NoExc))
    /\ nops = 0

\* self = Plane(Vector(n), c)
ConstructPlane ==
    /\ Fresh
    /\ LET new == PlaneOf(operand[1])
       IN  /\ store' = [store EXCEPT !["self"] = IF new.exc = NoExc THEN new.obj ELSE @]
           /\ ret' = Called("Plane", <<operand[1]>>, [exc |-> new.exc, value |-> new.obj])
           /\ UNCHANGED <<orig, nops, operand>>

\* self = Hyperplane(normal_vector=Vector(n), constant_term=c)
ConstructHyperplane ==
    /\ Fresh
    /\ LET row == operand[1]
           new == Call("Hyperplane",
                       <<0, CoefficientsOfRow(row), Call("Dec", <<row[Len(row)]>>)>>)
       IN  /\ ret' = Called("Hyperplane", <<row>>, [exc |-> new.exc, value |-> new.obj])
           /\ UNCHANGED <<store, orig, nops, operand>>

\* self == p, for the Planes of the two rows
Eq ==
    /\ Fresh
    /\ PlaneOf(operand[1]).exc = NoExc
    /\ OffsetPlaneOf(operand[2], operand[3]).exc = NoExc
    /\ LET self == PlaneOf(operand[1]).obj
           p    == OffsetPlaneOf(operand[2], operand[3]).obj
           r    == Call("plane_eq", <<self, p>>)
       IN  /\ store' = [self |-> self, p |-> p]
           /\ ret' = Called("__eq__", <<>>, [exc |-> r.exc, value |-> r.val])
           /\ UNCHANGED <<orig, nops, operand>>

\* Hyperplane(normal_vector=Vector(n1), constant_term=c1) ==
\* Hyperplane(normal_vector=Vector(n2), constant_term=c2): what the
\* constructors raise reaches the caller; an object they returned would
\* have no normal_vector for __eq__ to read
EqHyperplanes ==
    /\ Fresh
    /\ LET self == Call("Hyperplane", <<0, CoefficientsOfRow(operand[1]),
                                        ConstantTermOf(operand[1], 0)>>)
           p    == Call("Hyperplane", <<0, CoefficientsOfRow(operand[2]),
                                        ConstantTermOf(operand[2], operand[3])>>)
           exc  == IF self.exc # NoExc THEN self.exc
                   ELSE IF p.exc # NoExc THEN p.exc
                   ELSE AttributeError
       IN  /\ ret' = Called("Hyperplane.__eq__", <<>>, [exc |-> exc, value |-> FALSE])
           /\ UNCHANGED <<store, orig, nops, operand>>

NextPlane ==
    \/ ConstructPlane
    \/ ConstructHyperplane
    \/ Eq
    \/ EqHyperplanes

SpecPlane == InitPlane /\ [][NextPlane]_vars

-----------------------------------------------------------------------------
(* The equations as the caller wrote them: operand is the sequence of the  *)
(* rows <<a_1, ..., a_n, k>> of integers.  Their solution set is judged by *)
(* integer determinants, independently of the Decimal arithmetic.          *)

Unknowns(rows) == Len(rows[1]) - 1

\* the determinant of the rows R and columns C of M (Cardinality(R) = Cardinality(C))
RECURSIVE IntDet(_, _, _)
IntDet(M, R, C) ==
    IF R = {} THEN 1
    ELSE LET r == CHOOSE x \in R : \A y \in R : x <= y
             term[c \in C] ==
                 IF M[r][c] = 0 THEN 0
                 ELSE (IF Cardinality({d \in C : d < c}) % 2 = 0 THEN 1 ELSE -1)
                      * M[r][c] * IntDet(M, R \ {r}, C \ {c})
             sum[T \in SUBSET C] ==
                 IF T = {} THEN 0
                 ELSE LET c == CHOOSE x \in T : TRUE IN term[c] + sum[T \ {c}]
         IN  sum[C]

\* the rank of the first ncols columns of M
IntRank(M, ncols) ==
    LET ks == {k \in 0..Len(M) :
                 \E R \in SUBSET (1..Len(M)) : \E C \in SUBSET (1..ncols) :
                    /\ Cardinality(R) = k /\ Cardinality(C) = k
                    /\ IntDet(M, R, C) # 0}
    IN  CHOOSE k \in ks : \A j \in ks : j <= k

\* the equations have a common solution
Consistent(rows) == IntRank(rows, Unknowns(rows)) = IntRank(rows, Unknowns(rows) + 1)

\* the residual a . x - k of the point x in the equation row, in Decimal
Residual(row, x) ==
    Call("DSub", <<Call("dot", <<CoefficientsOfRow(row), x>>).val,
                   Call("Dec", <<row[Len(row)]>>)>>)

PivotIndices(ref) ==
    Call("indices_of_first_nonzero_terms_in_each_row", <<Running(store[ref])>>)

-----------------------------------------------------------------------------
\* C4: for every system, compute_triangular_form returns a system in which
\* the pivot columns (first nonzero column of each row) strictly increase
\* from top to bottom among the rows that have a pivot, and no row with a
\* pivot lies below a row without one (the pivot columns never decrease
\* down the rows).
C4_TriangularPivotsIncrease ==
    ret.op = "compute_triangular_form" =>
        /\ ret.exc = NoExc
        /\ LET idx == PivotIndices(ret.value.system)
           IN  \A i, j \in 1..Len(idx) :
                  i < j => /\ (idx[i] >= 0 /\ idx[j] >= 0) => idx[i] < idx[j]
                           /\ idx[j] >= 0 => idx[i] >= 0

\* C6: compute_triangular_form, compute_rref and compute_solution (and the
\* lower-level path it calls) leave the caller's system as it was built,
\* however they end, and the system they return is another object than the
\* caller's.
C6_CallerSystemUnchanged ==
    ret.op \in {"compute_triangular_form", "compute_rref", "compute_rref of compute_rref",
                "do_gaussian_elimination_and_parametrization", "compute_solution"} =>
        /\ store["self"].planes = orig
        /\ store["self"].dimension = orig[1].dimension
        /\ ret.value.kind = "system" => ret.value.system # "self"

\* compute_rref returned a system whose rows differ from the caller's
C6_Witness ==
    /\ ret.op = "compute_rref" /\ ret.exc = NoExc
    /\ store[ret.value.system].planes # orig
    /\ store["self"].planes = orig

\* the rows of two systems agree in normal vector and constant term
SameRows(P, Q) ==
    /\ Len(P) = Len(Q)
    /\ \A i \in 1..Len(P) : /\ P[i].normal_vector = Q[i].normal_vector
                            /\ P[i].constant_term = Q[i].constant_term

\* C5: for every system S, compute_rref(compute_rref(S)) has, row for row,
\* the same normal vector and constant term as compute_rref(S).
C5_RrefIdempotentExactly ==
    ret.op = "compute_rref of compute_rref" =>
        /\ ret.exc = NoExc
        /\ SameRows(store["copy2"].planes, store["copy"].planes)

\* the number of unknowns the equations leave undetermined
FreeUnknowns(rows) == Unknowns(rows) - IntRank(rows, Unknowns(rows))

\* basepoint + span(direction_vectors) is the solution set of the equations
\* rows in n unknowns, each equation read within epsilon: the basepoint
\* solves them, every direction solves the homogeneous equations, and the
\* directions are as many as the free unknowns and independent (each has a
\* coordinate 1 where the others have 0)
ParametrizesSolutions(rows, basepoint, direction_vectors) ==
    LET n == Unknowns(rows)
        D == direction_vectors
    IN  /\ Len(basepoint) = n
        /\ \A k \in 1..Len(D) : Len(D[k]) = n
        /\ \A i \in 1..Len(rows) : Call("is_near_zero", <<Residual(rows[i], basepoint)>>)
        /\ \A i \in 1..Len(rows) : \A k \in 1..Len(D) :
              Call("is_near_zero", <<Call("dot", <<CoefficientsOfRow(rows[i]), D[k]>>).val>>)
        /\ Len(D) = FreeUnknowns(rows)
        /\ \A k \in 1..Len(D) : \E j \in 1..n :
              /\ D[k][j] = Call("Dec", <<1>>)
              /\ \A m \in 1..Len(D) : m # k => D[m][j] = DZero

\* C1: for every consistent system, of any number of unknowns and rows,
\* compute_solution returns a Parametrization whose points are exactly the
\* solutions of the equations as written; with as many pivots as unknowns
\* it has no direction vector and its basepoint is the one solution.
C1_SolutionSetParametrized ==
    (ret.op = "compute_solution" /\ Consistent(operand)) =>
        /\ ret.exc = NoExc
        /\ ret.value.kind = "Parametrization"
        /\ ParametrizesSolutions(operand, ret.value.basepoint, ret.value.direction_vectors)

\* C3: compute_solution returns the text 'No solutions' as its value, with
\* no exception reaching the caller, exactly when the equations are
\* inconsistent (rank of the coefficients below rank of the augmented rows).
C3_NoSolutionsIffInconsistent ==
    ret.op = "compute_solution" =>
        (~Consistent(operand) <=>
            /\ ret.exc = NoExc
            /\ ret.value.kind = "str"
            /\ ret.value.text = NO_SOLUTIONS_MSG)

\* rows of the caller's system that have a nonzero coefficient
RowsWithPivot == {i \in 1..Len(operand) : \E j \in 1..Unknowns(operand) : operand[i][j] # 0}

\* C9: for a consistent system with fewer pivots than unknowns,
\* do_gaussian_elimination_and_parametrization raises 'Infinitely many
\* solutions' while compute_solution returns normally; and
\* raise_excepion_if_too_few_pivots raises it exactly when the rows with a
\* pivot are fewer than the system's dimension.
C9_InfiniteSolutionsRaisedBelow ==
    /\ (Consistent(operand) /\ FreeUnknowns(operand) > 0) =>
          /\ ret.op = "do_gaussian_elimination_and_parametrization" =>
                ret.exc = INF_SOLUTIONS_MSG
          /\ ret.op = "compute_solution" => ret.exc = NoExc
    /\ ret.op = "raise_excepion_if_too_few_pivots" =>
          (ret.exc = INF_SOLUTIONS_MSG <=>
              Cardinality(RowsWithPivot) < store["self"].dimension)

-----------------------------------------------------------------------------
(* The solution set of rows of Decimal coefficients is judged exactly, by  *)
(* determinants computed without rounding.                                 *)

\* x * y, exactly
XMul(x, y) ==
    IF x.dig = <<>> \/ y.dig = <<>> THEN DZero
    ELSE DCanon(x.neg # y.neg, NatMul(x.dig, y.dig), x.exp + y.exp)

\* x + y, exactly
XAdd(x, y) ==
    IF x.dig = <<>> THEN y
    ELSE IF y.dig = <<>> THEN x
    ELSE LET e  == IF x.exp < y.exp THEN x.exp ELSE y.exp
             cx == x.dig \o Zeros(x.exp - e)
             cy == y.dig \o Zeros(y.exp - e)
         IN  IF x.neg = y.neg THEN DCanon(x.neg, NatAdd(cx, cy), e)
             ELSE IF NatCmp(cx, cy) >= 0 THEN DCanon(x.neg, NatSub(cx, cy), e)
             ELSE DCanon(y.neg, NatSub(cy, cx), e)

\* the determinant of the rows R and columns C of the Decimal matrix M
RECURSIVE ExactDet(_, _, _)
ExactDet(M, R, C) ==
    IF R = {} THEN Dec(1)
    ELSE LET r == CHOOSE x \in R : \A y \in R : x <= y
             term[c \in C] ==
                 IF M[r][c].dig = <<>> THEN DZero
                 ELSE LET m == XMul(M[r][c], ExactDet(M, R \ {r}, C \ {c}))
                      IN  IF Cardinality({d \in C : d < c}) % 2 = 0 THEN m ELSE DNeg(m)
             sum[T \in SUBSET C] ==
                 IF T = {} THEN DZero
                 ELSE LET c == CHOOSE x \in T : TRUE IN XAdd(term[c], sum[T \ {c}])
         IN  sum[C]

\* the subsets of k elements of S
Subsets(S, k) == {X \in SUBSET S : Cardinality(X) = k}

\* the rank of the first ncols columns of M
ExactRank(M, ncols) ==
    LET ks == {k \in 0..Len(M) :
                 \E R \in Subsets(1..Len(M), k) : \E C \in Subsets(1..ncols, k) :
                    ExactDet(M, R, C).dig # <<>>}
    IN  CHOOSE k \in ks : \A j \in ks : j <= k

\* every row has as many coefficients as the first
SameUnknowns(planes) ==
    \A i \in 1..Len(planes) : Len(planes[i].normal_vector) = Len(planes[1].normal_vector)

\* the largest number of coefficients of a row of P or of Q
MostUnknowns(P, Q) ==
    LET lens == {Len(P[i].normal_vector) : i \in 1..Len(P)}
                \cup {Len(Q[i].normal_vector) : i \in 1..Len(Q)}
    IN  CHOOSE n \in lens : \A m \in lens : m <= n

\* the equations <<a_1, ..., a_n, k>> in n unknowns the rows stand for: an
\* unknown a row has no coefficient for has the coefficient 0 in it
Equations(planes, n) ==
    [i \in 1..Len(planes) |->
        [j \in 1..(n + 1) |->
            IF j <= Len(planes[i].normal_vector) THEN planes[i].normal_vector[j]
            ELSE IF j <= n THEN DZero
            ELSE planes[i].constant_term]]

\* the equations E have a common solution
Solvable(E) == ExactRank(E, Len(E[1]) - 1) = ExactRank(E, Len(E[1]))

\* rows and columns <<R, C>> of M, as many as its rank, of nonzero
\* determinant: the rows R span the rows of M
Basis(M) ==
    LET r == ExactRank(M, Len(M[1]))
    IN  CHOOSE b \in Subsets(1..Len(M), r) \X Subsets(1..Len(M[1]), r) :
            ExactDet(M, b[1], b[2]).dig # <<>>

\* the equation row is a combination of the equations E: it is one of
\* them, or E with the row appended has the rank of E (the determinant of
\* the basis, bordered by the row and any further column, is zero)
InSpan(E, row) ==
    \/ \E k \in 1..Len(E) : E[k] = row
    \/ LET b == Basis(E)
           M == E \o <<row>>
       IN  \A c \in (1..Len(row)) \ b[2] :
              ExactDet(M, b[1] \cup {Len(M)}, b[2] \cup {c}).dig = <<>>

\* two systems of equations in the same unknowns have the same solutions:
\* their augmented rows span the same space, or both have no solution
SameSolutions(A, B) ==
    \/ /\ \A i \in 1..Len(B) : InSpan(A, B[i])
       /\ \A i \in 1..Len(A) : InSpan(B, A[i])
    \/ ~Solvable(A) /\ ~Solvable(B)

\* the call is an elementary row operation as C2 lists them
RowOperation(call) ==
    \/ call.op = "swap_rows"
    \/ call.op = "multiply_coefficient_and_row" /\ call.args[1].dig # <<>>
    \/ call.op = "add_multiple_times_row_to_row"

\* add_multiple_times_row_to_row(-1, i, i): the row minus itself
SubtractsRowFromItself(call) ==
    /\ call.op = "add_multiple_times_row_to_row"
    /\ call.args[1] = Dec(-1)
    /\ call.args[2] = call.args[3]

\* the product c * x the operation computes is c * x, not a rounding of it
ExactProduct(c, x) == Call("DMul", <<c, x>>) = XMul(c, x)

\* the sum c * x + y the operation computes of that product
ExactSum(c, x, y) ==
    Call("DAdd", <<Call("DMul", <<c, x>>), y>>) = XAdd(Call("DMul", <<c, x>>), y)

\* every product and every sum the row operation computes on the rows P is
\* exact: the Prec digits of the context hold it
ExactArithmetic(call, P) ==
    IF call.op = "multiply_coefficient_and_row"
    THEN LET plane == P[call.args[2] + 1]
         IN  /\ \A j \in 1..Len(plane.normal_vector) :
                   ExactProduct(call.args[1], plane.normal_vector[j])
             /\ ExactProduct(call.args[1], plane.constant_term)
    ELSE IF call.op = "add_multiple_times_row_to_row"
    THEN LET plane1 == P[call.args[2] + 1]
             plane2 == P[call.args[3] + 1]
         IN  /\ \A j \in 1..Len(plane1.normal_vector) :
                   /\ ExactProduct(call.args[1], plane1.normal_vector[j])
                   /\ j <= Len(plane2.normal_vector) =>
                         ExactSum(call.args[1], plane1.normal_vector[j],
                                  plane2.normal_vector[j])
             /\ ExactProduct(call.args[1], plane1.constant_term)
             /\ ExactSum(call.args[1], plane1.constant_term, plane2.constant_term)
    ELSE TRUE

\* the step leaves the solutions of the caller's system what they were: it
\* leaves the rows what they were, or the rows it leaves have the same
\* solutions
KeepsSolutions ==
    \/ store'["self"].planes = store["self"].planes
    \/ LET n == MostUnknowns(store["self"].planes, store'["self"].planes)
       IN  SameSolutions(Equations(store["self"].planes, n),
                         Equations(store'["self"].planes, n))

\* C2 as stated: every swap_rows(i, j), multiply_coefficient_and_row(c, i)
\* with c # 0 and add_multiple_times_row_to_row(c, source, target), with any
\* row indices and coefficients, leaves the solution set of the system what
\* it was (and so does every sequence of them).
C2_RowOperationsKeepSolutions ==
    [][RowOperation(ret') => KeepsSolutions]_vars

\* C2 with add_multiple_times_row_to_row(-1, i, i) alone left out: does not
\* hold, a product that takes more than Prec digits is rounded, and the
\* rounded row has other solutions.
C2_AllButRowMinusItselfKeepSolutions ==
    [][(RowOperation(ret') /\ ~SubtractsRowFromItself(ret')) => KeepsSolutions]_vars

\* C2 for exact products and sums alone: does not hold, the row minus
\* itself is 0 = 0.
C2_ExactRowOperationsKeepSolutions ==
    [][(RowOperation(ret') /\ ExactArithmetic(ret', store["self"].planes))
          => KeepsSolutions]_vars

\* C2 as amended: every swap_rows(i, j), multiply_coefficient_and_row(c, i)
\* with c # 0 and add_multiple_times_row_to_row(c, source, target) other
\* than with c = -1 and source = target, whose products and sums are exact
\* in the Prec digits of the context, leaves the solution set of the system
\* what it was (and so does every sequence of them).
C2_ProperRowOperationsKeepSolutions ==
    [][(/\ RowOperation(ret')
        /\ ~SubtractsRowFromItself(ret')
        /\ ExactArithmetic(ret', store["self"].planes)) => KeepsSolutions]_vars

\* a second operation added twice row 0 to row 1 of a system that has
\* solutions, exactly, and changed the rows
C2_Witness ==
    /\ nops = MaxOps
    /\ ret.op = "add_multiple_times_row_to_row" /\ ret.args = <<Dec(2), 0, 1>>
    /\ ret.exc = NoExc
    /\ ~SameRows(store["self"].planes, orig)
    /\ LET n == MostUnknowns(orig, store["self"].planes)
       IN  /\ Solvable(Equations(orig, n))
           /\ SameSolutions(Equations(orig, n), Equations(store["self"].planes, n))

\* C7: in every state of a LinearSystem every row has the system's
\* dimension, as attribute and as number of coefficients; construction from
\* rows of differing dimensions and replacement of a row by one of another
\* dimension fail with 'All planes in the system should live in the same
\* dimension', and the failed replacement leaves the rows unchanged.
C7_RowsHaveSystemDimension ==
    LET S == store["self"]
    IN  /\ (ret.op = "LinearSystem" /\ ~SameUnknowns(orig)) =>
              ret.exc = ALL_PLANES_MUST_BE_IN_SAME_DIM_MSG
        /\ ~(ret.op = "LinearSystem" /\ ret.exc # NoExc) =>
              \A i \in 1..Len(S.planes) :
                 /\ S.planes[i].dimension = S.dimension
                 /\ Len(S.planes[i].normal_vector) = S.dimension
        /\ (ret.op = "__setitem__" /\ nops = 1 /\ SameUnknowns(orig)
              /\ Len(ret.args[2]) - 1 # Len(orig[1].normal_vector)) =>
                 /\ ret.exc = ALL_PLANES_MUST_BE_IN_SAME_DIM_MSG
                 /\ S.planes = orig

-----------------------------------------------------------------------------
\* the row has no nonzero coefficient
ZeroNormal(row) == \A j \in 1..(Len(row) - 1) : row[j] = 0

\* the equations a and b in the same unknowns are multiples of each other
Proportional(a, b) ==
    \A i, j \in 1..Len(a) : a[i] * b[j] = a[j] * b[i]

\* what C8 says a == b is, for the planes of the integer rows a and b, the
\* constant term of b being b[Len(b)] + t * 1E-11: the same point set.
\* (With t # 0 no multiple of a nonzero integer normal vector of a makes
\* the integer c_a such a multiple of c_b + t * 1E-11, and no integer is
\* equal to it.)
Coincide(a, b, t) ==
    IF Len(a) # Len(b) THEN FALSE
    ELSE IF ~ZeroNormal(a) /\ ~ZeroNormal(b) THEN Proportional(a, b) /\ t = 0
    ELSE ZeroNormal(a) /\ ZeroNormal(b) /\ a[Len(a)] = b[Len(b)] /\ t = 0

\* C8: A == B on two planes or two hyperplanes is, when both normal
\* vectors are nonzero, True exactly when A and B are the same point set
\* (normal vectors proportional, constant terms in the same proportion);
\* when a normal vector is zero, True exactly when both are zero and the
\* constant terms equal; and B == A is the same.
C8_EqIsCoincidence ==
    ret.op \in {"__eq__", "Hyperplane.__eq__"} =>
        /\ ret.exc = NoExc
        /\ ret.value = Coincide(operand[1], operand[2], operand[3])
        /\ ret.op = "__eq__" =>
              Call("plane_eq", <<store["p"], store["self"]>>)
                  = [exc |-> NoExc, val |-> ret.value]

\* C10: constructing a Hyperplane or a Plane from a normal vector n of any
\* dimension and a constant term c succeeds; the object has normal vector
\* n, the dimension of n, and basepoint None when n is all zero, else the
\* vector of that dimension that is c / n[k] at the first nonzero index k
\* of n and zero elsewhere, so that n . basepoint = c.
C10_ConstructionFromNormalVector ==
    ret.op \in {"Plane", "Hyperplane"} =>
        LET row == ret.args[1]
            n   == CoefficientsOfRow(row)
            c   == Call("Dec", <<row[Len(row)]>>)
            nz  == {j \in 1..Len(n) : row[j] # 0}
        IN  /\ ret.exc = NoExc
            /\ ret.value.normal_vector = n
            /\ ret.value.dimension = Len(n)
            /\ IF nz = {} THEN ret.value.basepoint = None
               ELSE LET k == CHOOSE j \in nz : \A i \in nz : j <= i
                    IN  /\ ret.value.basepoint =
                              [j \in 1..Len(n) |->
                                  IF j = k THEN Call("DDiv", <<c, n[k]>>) ELSE DZero]
                        /\ Call("is_near_zero",
                                <<Call("DSub", <<Call("dot", <<n, ret.value.basepoint>>).val,
                                                 c>>)>>)

\* pivot column of each row (from 0, -1 for none): the first entry of the
\* normal vector that is_near_zero does not take for zero
PivotColumns(P) ==
    [i \in 1..Len(P) |->
        LET n  == P[i].normal_vector
            nz == {k \in 1..Len(n) : ~Call("is_near_zero", <<n[k]>>)}
        IN  IF nz = {} THEN -1 ELSE (CHOOSE k \in nz : \A j \in nz : k <= j) - 1]

\* the rows P are in reduced row-echelon form: every pivot is exactly 1 and
\* the only nonzero entry of its column, the pivot columns strictly
\* increase down the rows, and no row with a pivot lies below a row
\* without one
ReducedRowEchelon(P) ==
    LET idx == PivotColumns(P)
    IN  \A i \in 1..Len(P) :
           /\ idx[i] >= 0 =>
                 /\ P[i].normal_vector[idx[i] + 1] = Call("Dec", <<1>>)
                 /\ \A j \in 1..Len(P) :
                       j # i => P[j].normal_vector[idx[i] + 1] = DZero
           /\ \A j \in 1..Len(P) :
                 i < j => /\ (idx[i] >= 0 /\ idx[j] >= 0) => idx[i] < idx[j]
                          /\ idx[j] >= 0 => idx[i] >= 0

\* C11: for every system, compute_rref returns a system in reduced
\* row-echelon form: every pivot entry is exactly 1 and every other entry
\* of its column exactly 0, the pivot columns strictly increase, and the
\* rows whose normal vector is all zero come after the rows with a pivot.
C11_RrefIsReducedExactly ==
    ret.op = "compute_rref" =>
        /\ ret.exc = NoExc
        /\ ReducedRowEchelon(store[ret.value.system].planes)
====
